---- MODULE Spec2Model ----
(***************************************************************************)
(* A model of the engine crate's animation timeline (animations.rs) and    *)
(* of its pixel buffer operations hline and bitblt (types.rs).             *)
(*                                                                         *)
(* A Rust panic ends the program: it is recorded in the result of the call *)
(* that raised it and in pc, and no operation runs after it.  Field        *)
(* assignments made before the panic are kept, as they are in the object   *)
(* while the stack unwinds.                                                *)
(***************************************************************************)
EXTENDS Integers, Sequences, FiniteSets

VARIABLES
    debug_build,  \* build profile: debug assertions and overflow checks on
    pc,           \* "running" or "panicked"
    animations,   \* AnimationSet.animations: Action -> Animation
    cursor,       \* the AnimationState in use: <<>> or <<state>>
    hist,         \* the tick calls made on the cursor, in order
    callRet,      \* the last AnimationSet lookup and its outcome
    dst,          \* the Image that hline and bitblt write (self)
    src,          \* the Image that bitblt reads
    lastOp        \* the last Image operation, its arguments and outcome

vars == <<debug_build, pc, animations, cursor, hist, callRet, dst, src, lastOp>>

animVars == <<animations, cursor, hist, callRet>>
imageVars == <<dst, src, lastOp>>

(***************************************************************************)
(* Bounds of the model.                                                    *)
(***************************************************************************)
MaxFrames == 3   \* longest clip
MaxD == 2        \* largest speedup_factor passed to tick
MaxTicks == 6    \* tick calls made on one cursor
MaxStart == 2    \* largest start_time of a hand-built AnimationState

SPRITE_RECT_WIDTH == 443
SPRITE_RECT_HEIGHT == 401

Actions == {"Idle", "Walk"}

Vec2i(x, y) == [x |-> x, y |-> y]

Rect(px, py, sx, sy) == [pos |-> Vec2i(px, py), sz |-> Vec2i(sx, sy)]

\* The i-th cell of the sprite sheet's first row, i from 0.
Cell(i) == Rect(i * SPRITE_RECT_WIDTH, 0, SPRITE_RECT_WIDTH, SPRITE_RECT_HEIGHT)

Animation(n, l) ==
    [frames |-> [i \in 1..n |-> Cell(i - 1)],
     frame_timings |-> [i \in 1..n |-> 1],
     loops |-> l]

\* The clips a catalog may hold: 1..MaxFrames distinct frames, looping or not.
Clips == { Animation(n, l) : n \in 1..MaxFrames, l \in BOOLEAN }

Speeds == 1..MaxD

(***************************************************************************)
(* Animation::current_frame and Animation::is_finished.                    *)
(*                                                                         *)
(* now - start_time is a usize subtraction.  When now < start_time it      *)
(* panics in a build with overflow checks and wraps otherwise; the wrapped *)
(* difference is at least 2^32 - MaxStart, so its quotient by any          *)
(* speedup_factor of the model exceeds every clip length of the model.     *)
(***************************************************************************)
Elapsed(start_time, now, speedup_factor, checks) ==
    IF now >= start_time
    THEN [kind |-> "value", v |-> (now - start_time) \div speedup_factor]
    ELSE IF checks
         THEN [kind |-> "overflow", v |-> 0]
         ELSE [kind |-> "wrapped", v |-> 0]

is_finished_gt(anim, start_time, now, speedup_factor, checks) ==
    LET e == Elapsed(start_time, now, speedup_factor, checks)
    IN  CASE e.kind = "overflow" -> [panic |-> "overflow", val |-> FALSE]
          [] e.kind = "wrapped"  -> [panic |-> "none", val |-> TRUE]
          [] OTHER -> [panic |-> "none", val |-> e.v > Len(anim.frames)]

is_finished(anim, start_time, now, speedup_factor, checks) ==
    LET e == Elapsed(start_time, now, speedup_factor, checks)
    IN  CASE e.kind = "overflow" -> [panic |-> "overflow", val |-> FALSE]
          [] e.kind = "wrapped"  -> [panic |-> "none", val |-> TRUE]
          [] OTHER -> [panic |-> "none", val |-> e.v >= Len(anim.frames)]

current_frame_undivided(anim, start_time, now, speedup_factor, checks) ==
    LET e == Elapsed(start_time, now, 1, checks)
    IN  CASE e.kind = "overflow" -> [panic |-> "overflow", frame |-> <<>>]
          [] e.kind = "wrapped"  -> [panic |-> "index", frame |-> <<>>]
          [] e.v >= Len(anim.frames) -> [panic |-> "index", frame |-> <<>>]
          [] OTHER -> [panic |-> "none", frame |-> <<anim.frames[e.v + 1]>>]

current_frame(anim, start_time, now, speedup_factor, checks) ==
    LET e == Elapsed(start_time, now, speedup_factor, checks)
    IN  CASE e.kind = "overflow" -> [panic |-> "overflow", frame |-> <<>>]
          [] e.kind = "wrapped"  -> [panic |-> "index", frame |-> <<>>]
          [] e.v >= Len(anim.frames) -> [panic |-> "index", frame |-> <<>>]
          [] OTHER -> [panic |-> "none", frame |-> <<anim.frames[e.v + 1]>>]

(***************************************************************************)
(* AnimationState::tick as a function of the state and the argument: the   *)
(* value of now it leaves and what the call returns.                       *)
(***************************************************************************)
tick_restart_at_one(st, speedup_factor, checks) ==
    LET now1 == st.now + 1
        fin == is_finished(st.animation, st.start_time, now1, speedup_factor, checks)
    IN  IF fin.panic # "none"
        THEN [now |-> now1, panic |-> fin.panic, frame |-> <<>>]
        ELSE LET now2 == IF fin.val /\ st.animation.loops THEN 1 ELSE now1
                 r == current_frame(st.animation, st.start_time, now2,
                                    speedup_factor, checks)
             IN  [now |-> now2, panic |-> r.panic, frame |-> r.frame]

tick(st, speedup_factor, checks) ==
    LET now1 == st.now + 1
        fin == is_finished(st.animation, st.start_time, now1, speedup_factor, checks)
    IN  IF fin.panic # "none"
        THEN [now |-> now1, panic |-> fin.panic, frame |-> <<>>]
        ELSE LET now2 == IF fin.val /\ st.animation.loops THEN 0 ELSE now1
                 r == current_frame(st.animation, st.start_time, now2,
                                    speedup_factor, checks)
             IN  [now |-> now2, panic |-> r.panic, frame |-> r.frame]

NoCall == [op |-> "none", action |-> "", outcome |-> "none"]

NoImage == [sz |-> Vec2i(0, 0), buffer |-> <<>>]

NoOp == [op |-> "none"]

(***************************************************************************)
(* The operations of the animation catalog and of a cursor.                *)
(***************************************************************************)
\* AnimationSet::get_animation: animations.get(&action).unwrap()
GetAnimation(action) ==
    /\ pc = "running"
    /\ IF action \in DOMAIN animations
       THEN /\ callRet' = [op |-> "get", action |-> action, outcome |-> "ok"]
            /\ pc' = pc
       ELSE /\ callRet' = [op |-> "get", action |-> action, outcome |-> "panic"]
            /\ pc' = "panicked"
    /\ UNCHANGED <<debug_build, animations, cursor, hist, imageVars>>

\* AnimationSet::play_animation: a new AnimationState at start_time = now = 0
PlayAnimation(action) ==
    /\ pc = "running"
    /\ IF action \in DOMAIN animations
       THEN /\ cursor' = <<[start_time |-> 0, now |-> 0, action |-> action,
                            animation |-> animations[action]]>>
            /\ hist' = <<>>
            /\ callRet' = [op |-> "play", action |-> action, outcome |-> "ok"]
            /\ pc' = pc
       ELSE /\ callRet' = [op |-> "play", action |-> action, outcome |-> "panic"]
            /\ pc' = "panicked"
            /\ UNCHANGED <<cursor, hist>>
    /\ UNCHANGED <<debug_build, animations, imageVars>>

\* AnimationState::tick on the cursor in use
Tick(speedup_factor) ==
    /\ pc = "running"
    /\ cursor # <<>>
    /\ Len(hist) < MaxTicks
    /\ LET r == tick(cursor[1], speedup_factor, debug_build)
       IN  /\ cursor' = <<[cursor[1] EXCEPT !.now = r.now]>>
           /\ hist' = Append(hist, [d |-> speedup_factor, now |-> r.now,
                                    panic |-> r.panic, frame |-> r.frame])
           /\ pc' = IF r.panic = "none" THEN pc ELSE "panicked"
    /\ UNCHANGED <<debug_build, animations, callRet, imageVars>>

(***************************************************************************)
(* Images.  A Color is <<r, g, b, a>>; buffer[y * sz.x + x + 1] is the     *)
(* pixel at (x, y).                                                        *)
(***************************************************************************)
MaxDim == 2      \* largest width and height of an image

I32Max == 2147483647

Min(a, b) == IF a <= b THEN a ELSE b

Max(a, b) == IF a >= b THEN a ELSE b

Palette ==
    << <<255, 0, 0, 255>>,      \* opaque
       <<0, 128, 255, 255>>,    \* opaque
       <<200, 200, 200, 100>>,  \* translucent, not premultiplied
       <<0, 0, 0, 0>>,          \* transparent
       <<255, 255, 255, 255>>,  \* opaque
       <<64, 32, 0, 128>> >>    \* translucent, premultiplied

\* A w x h image whose pixel at index i is the palette entry off + step * i.
PatternImage(w, h, off, step) ==
    [sz |-> Vec2i(w, h),
     buffer |-> [i \in 1..(w * h) |->
                    Palette[((off + step * (i - 1)) % Len(Palette)) + 1]]]

Seeds == {0, 1}

\* Seed 0: a source of one opaque colour; seed 1: a source of mixed colours.
SrcImage(w, h, seed) == PatternImage(w, h, seed, seed % 2)

DstImage(w, h, seed) == PatternImage(w, h, seed + 3, 1)

\* Rect::contains, on Vec2i's componentwise +
contains(self, other) ==
    LET br == Vec2i(self.pos.x + self.sz.x, self.pos.y + self.sz.y)
        obr == Vec2i(other.pos.x + other.sz.x, other.pos.y + other.sz.y)
    IN  /\ self.pos.x <= other.pos.x
        /\ self.pos.y <= other.pos.y
        /\ obr.x <= br.x
        /\ obr.y <= br.y

\* a + b on i32 with b >= 0: past I32Max it panics under overflow checks and
\* wraps to a + b - 2^32 without them.
AddI32(a, b, checks) ==
    IF b > 0 /\ a > I32Max - b
    THEN IF checks
         THEN [kind |-> "overflow", v |-> 0]
         ELSE [kind |-> "value", v |-> (a - I32Max - 1) + (b - I32Max - 1)]
    ELSE [kind |-> "value", v |-> a + b]

\* round(n / 255) for n >= 0, as f32::round decides it: n / 255 is never
\* within 1/510 of a half, and the f32 error here is below 1/10000.
Round255(n) == (2 * n + 255) \div 510

SaturatingAdd(a, b) == Min(255, a + b)

\* The pixel loop's body of bitblt, lines 153-166: the new destination pixel.
Blend_keeps_dest(to, from) ==
    << SaturatingAdd(from[1], to[1]),
       SaturatingAdd(from[2], to[2]),
       SaturatingAdd(from[3], to[3]),
       Min(255, Round255(255 * from[4] + to[4] * (255 - from[4]))) >>

Blend(to, from) ==
    << SaturatingAdd(from[1], Round255(to[1] * (255 - from[4]))),
       SaturatingAdd(from[2], Round255(to[2] * (255 - from[4]))),
       SaturatingAdd(from[3], Round255(to[3] * (255 - from[4]))),
       Min(255, Round255(255 * from[4] + to[4] * (255 - from[4]))) >>

\* Image::hline: the outcome and the buffer it leaves.
hline(self, x0, x1, y, c) ==
    LET lo == y * self.sz.x + x0
        hi == y * self.sz.x + x1
    IN  IF ~(y < self.sz.y) \/ ~(x0 <= x1) \/ ~(x1 < self.sz.x)
        THEN [panic |-> "assert", buffer |-> self.buffer]
        ELSE IF lo > hi \/ hi > Len(self.buffer)
        THEN [panic |-> "slice", buffer |-> self.buffer]
        ELSE [panic |-> "none",
              buffer |-> [i \in 1..Len(self.buffer) |->
                             IF lo < i /\ i <= hi THEN c ELSE self.buffer[i]]]

\* The test of bitblt's line 113, its disjuncts evaluated left to right:
\* "panic" (an overflowing sum), "return" or "continue".
EarlyReturn(self, from, to, checks) ==
    LET sx == AddI32(to.x, from.sz.x, checks)
        sy == AddI32(to.y, from.sz.y, checks)
    IN  IF sx.kind = "overflow" THEN "panic"
        ELSE IF sx.v < 0 \/ self.sz.x <= to.x THEN "return"
        ELSE IF sy.kind = "overflow" THEN "panic"
        ELSE IF sy.v < 0 \/ self.sz.y <= to.y THEN "return"
        ELSE "continue"

\* bitblt from line 116 on, reached when line 113 does not return.
Composite(self, source, from, to, checks) ==
    LET src_pitch == source.sz.x
        dst_pitch == self.sz.x
        y_skip == Max(to.y, 0) - to.y
        x_skip == Max(to.x, 0) - to.x
        y_count == Min(to.y + from.sz.y, self.sz.y) - to.y
        x_count == Min(to.x + from.sz.x, self.sz.x) - to.x
        asserts == /\ 0 <= x_skip /\ 0 <= y_skip
                   /\ 0 <= x_count /\ 0 <= y_count
                   /\ x_count <= from.sz.x /\ y_count <= from.sz.y
                   /\ 0 <= to.x + x_skip /\ 0 <= to.y + y_skip
                   /\ 0 <= from.pos.x + x_skip /\ 0 <= from.pos.y + y_skip
                   /\ to.x + x_count <= self.sz.x
                   /\ to.y + y_count <= self.sz.y
        from_start == src_pitch * (from.pos.y + y_skip)
        from_stop == src_pitch * (from.pos.y + y_count)
        to_start == dst_pitch * (to.y + y_skip)
        to_stop == dst_pitch * (to.y + y_count)
        to_row_start == to.x + x_skip
        to_row_stop == to.x + x_count
        from_row_start == from.pos.x + x_skip
        from_row_stop == from.pos.x + x_count
        \* chunks_exact yields the whole rows of each slice; zip stops at the shorter
        rows == Min((from_stop - from_start) \div src_pitch,
                    (to_stop - to_start) \div dst_pitch)
        cols == Min(to_row_stop - to_row_start, from_row_stop - from_row_start)
        Written(i) ==
            LET r == (i - 1 - to_start) \div dst_pitch
                c == (i - 1 - to_start) % dst_pitch
            IN  /\ to_start < i
                /\ r < rows
                /\ to_row_start <= c
                /\ c < to_row_start + cols
        SrcIndex(i) ==
            LET r == (i - 1 - to_start) \div dst_pitch
                c == (i - 1 - to_start) % dst_pitch
            IN  from_start + r * src_pitch + from_row_start + (c - to_row_start) + 1
    IN  IF checks /\ ~asserts
        THEN [panic |-> "debug_assert", buffer |-> self.buffer]
        ELSE IF from_start > from_stop \/ from_stop > Len(source.buffer)
        THEN [panic |-> "slice", buffer |-> self.buffer]
        ELSE IF src_pitch = 0
        THEN [panic |-> "chunk_size", buffer |-> self.buffer]
        ELSE IF to_start > to_stop \/ to_stop > Len(self.buffer)
        THEN [panic |-> "slice", buffer |-> self.buffer]
        ELSE IF dst_pitch = 0
        THEN [panic |-> "chunk_size", buffer |-> self.buffer]
        ELSE IF /\ rows > 0
                /\ \/ to_row_start > to_row_stop
                   \/ to_row_stop > dst_pitch
                   \/ from_row_start > from_row_stop
                   \/ from_row_stop > src_pitch
        THEN [panic |-> "slice", buffer |-> self.buffer]
        ELSE [panic |-> "none",
              buffer |-> [i \in 1..Len(self.buffer) |->
                             IF Written(i)
                             THEN Blend(self.buffer[i], source.buffer[SrcIndex(i)])
                             ELSE self.buffer[i]]]

\* Image::bitblt: the outcome and the buffer it leaves.
bitblt(self, source, from, to, checks) ==
    IF ~contains([pos |-> Vec2i(0, 0), sz |-> source.sz], from)
    THEN [panic |-> "assert", buffer |-> self.buffer]
    ELSE LET e == EarlyReturn(self, from, to, checks)
         IN  CASE e = "panic" -> [panic |-> "overflow", buffer |-> self.buffer]
               [] e = "return" -> [panic |-> "none", buffer |-> self.buffer]
               [] OTHER -> Composite(self, source, from, to, checks)

(***************************************************************************)
(* The Image operations, each applied once to the images Init draws.       *)
(***************************************************************************)
Coords == 0..(MaxDim + 1)

\* The source rectangles of the model: every rectangle of non-negative size
\* inside the source, and the whole source moved right by one (not inside).
FromRects ==
    { Rect(px, py, sx, sy) :
        <<px, sx, py, sy>> \in
            { q \in (0..src.sz.x) \X (0..src.sz.x) \X (0..src.sz.y) \X (0..src.sz.y) :
                q[1] + q[2] <= src.sz.x /\ q[3] + q[4] <= src.sz.y } }
        \cup { Rect(1, 0, src.sz.x, src.sz.y) }

\* Destination positions: around the destination, and the far right / bottom.
ToPoints ==
    { Vec2i(x, y) : x \in (0 - MaxDim - 1)..MaxDim, y \in (0 - MaxDim - 1)..MaxDim }
        \cup { Vec2i(I32Max, 0), Vec2i(0, I32Max) }

Hline(x0, x1, y, c) ==
    /\ pc = "running"
    /\ lastOp.op = "none"
    /\ LET r == hline(dst, x0, x1, y, c)
       IN  /\ dst' = [dst EXCEPT !.buffer = r.buffer]
           /\ lastOp' = [op |-> "hline", x0 |-> x0, x1 |-> x1, y |-> y, c |-> c,
                         old |-> dst.buffer, panic |-> r.panic]
           /\ pc' = IF r.panic = "none" THEN pc ELSE "panicked"
    /\ UNCHANGED <<debug_build, src, animVars>>

Bitblt(from, to) ==
    /\ pc = "running"
    /\ lastOp.op = "none"
    /\ LET r == bitblt(dst, src, from, to, debug_build)
       IN  /\ dst' = [dst EXCEPT !.buffer = r.buffer]
           /\ lastOp' = [op |-> "bitblt", from |-> from, to |-> to,
                         old |-> dst.buffer, panic |-> r.panic]
           /\ pc' = IF r.panic = "none" THEN pc ELSE "panicked"
    /\ UNCHANGED <<debug_build, src, animVars>>

(***************************************************************************)
(* Specifications.                                                         *)
(***************************************************************************)
EmptyCatalog == [a \in {} |-> Animation(1, FALSE)]

\* The catalogs of the model: any set of known actions, any clip for Idle,
\* and for Walk the clip of complementary length and loop flag.
Catalogs ==
    { [a \in S |-> IF a = "Idle" THEN Animation(n, l)
                                 ELSE Animation(MaxFrames + 1 - n, ~l)] :
        S \in SUBSET Actions, n \in 1..MaxFrames, l \in BOOLEAN }

\* A catalog and the cursors its play_animation hands out.
Init ==
    /\ debug_build \in BOOLEAN
    /\ pc = "running"
    /\ animations \in Catalogs
    /\ cursor = <<>>
    /\ hist = <<>>
    /\ callRet = NoCall
    /\ dst = NoImage
    /\ src = NoImage
    /\ lastOp = NoOp

Next ==
    \/ \E action \in Actions : GetAnimation(action)
    \/ \E action \in Actions : PlayAnimation(action)
    \/ \E d \in Speeds : Tick(d)

Spec == Init /\ [][Next]_vars

\* An AnimationState built by hand (its fields are public) with
\* now >= start_time, then ticked.
InitSeeded ==
    /\ debug_build \in BOOLEAN
    /\ pc = "running"
    /\ animations = EmptyCatalog
    /\ \E s \in 0..MaxStart, n \in 0..(MaxStart + 1), a \in Actions, anim \in Clips :
          /\ n >= s
          /\ cursor = <<[start_time |-> s, now |-> n, action |-> a,
                         animation |-> anim]>>
    /\ hist = <<>>
    /\ callRet = NoCall
    /\ dst = NoImage
    /\ src = NoImage
    /\ lastOp = NoOp

NextSeeded == \E d \in Speeds : Tick(d)

SpecSeeded == InitSeeded /\ [][NextSeeded]_vars

\* One hline or bitblt on a destination and a source of any size up to MaxDim.
InitImage ==
    /\ debug_build \in BOOLEAN
    /\ pc = "running"
    /\ animations = EmptyCatalog
    /\ cursor = <<>>
    /\ hist = <<>>
    /\ callRet = NoCall
    /\ \E seed \in Seeds, dw \in 0..MaxDim, dh \in 0..MaxDim,
          sw \in 0..MaxDim, sh \in 0..MaxDim :
          /\ dst = DstImage(dw, dh, seed)
          /\ src = SrcImage(sw, sh, seed)
    /\ lastOp = NoOp

HlineAny ==
    /\ lastOp.op = "none"
    /\ \E x0 \in Coords, x1 \in Coords, y \in Coords : Hline(x0, x1, y, Palette[3])

BitbltAny ==
    /\ lastOp.op = "none"
    /\ \E from \in FromRects, to \in ToPoints : Bitblt(from, to)

NextImage == HlineAny \/ BitbltAny

SpecImage == InitImage /\ [][NextImage]_vars

(***************************************************************************)
(* Properties of the cursor.  Under Spec the cursor comes from             *)
(* play_animation, so its start_time is 0; hist[k] is its k-th tick call:  *)
(* the argument d, the value of now the call left, and what it returned.   *)
(***************************************************************************)
Clip == cursor[1].animation

NFrames == Len(Clip.frames)

\* now before the k-th tick call
NowBefore(k) == IF k = 1 THEN 0 ELSE hist[k - 1].now

\* C1: on a non-looping clip, every tick call that leaves the clip finished
\* (now / d >= N) returns the last frame, frames[N-1], and does not fail.
C1_TerminalHold ==
    (cursor # <<>> /\ ~Clip.loops) =>
        \A k \in 1..Len(hist) :
            hist[k].now \div hist[k].d >= NFrames =>
                /\ hist[k].panic = "none"
                /\ hist[k].frame = <<Clip.frames[NFrames]>>

\* The scenario of C2: a fresh cursor on the non-looping clip R0, R1, R2,
\* ticked with speedup_factor 2 only.
C2_Scenario ==
    /\ cursor # <<>>
    /\ Clip = Animation(3, FALSE)
    /\ \A k \in 1..Len(hist) : hist[k].d = 2

C2_Expected == <<Cell(0), Cell(0), Cell(1), Cell(1), Cell(2), Cell(2)>>

C3_LoopBoundary ==
    (cursor # <<>> /\ Clip.loops) =>
        \A k \in 1..Len(hist) :
            (NowBefore(k) + 1) \div hist[k].d >= NFrames =>
                /\ hist[k].now = 0
                /\ hist[k].panic = "none"
                /\ hist[k].frame = <<Clip.frames[1]>>

C3_BoundaryReached ==
    /\ cursor # <<>>
    /\ Clip.loops
    /\ NFrames >= 2
    /\ \E k \in 2..Len(hist) :
          /\ hist[k].d = 2
          /\ NowBefore(k) + 1 = NFrames * 2
          /\ hist[k].now = 0

\* C10: on a looping clip, after any sequence of tick(d) calls, d >= 1 and
\* varying, every call returned a frame of the clip and left now / d < N.
C10_LoopingInRange ==
    (cursor # <<>> /\ Clip.loops) =>
        \A k \in 1..Len(hist) :
            /\ hist[k].d >= 1
            /\ hist[k].panic = "none"
            /\ hist[k].now \div hist[k].d < NFrames
            /\ \E i \in 1..NFrames : hist[k].frame = <<Clip.frames[i]>>

C10_MixedSpeedsLooped ==
    /\ cursor # <<>>
    /\ Clip.loops
    /\ Len(hist) >= 5
    /\ \E j, k \in 1..Len(hist) : hist[j].d # hist[k].d
    /\ \E k \in 2..(Len(hist) - 1) : hist[k].now = 0 /\ hist[k + 1].now = 1

\* C7: a lookup of an action the catalog does not hold returns an
\* UnknownAction value to the caller; the program goes on, the catalog is
\* what it was and no cursor was made.
C7_UnknownActionReturned ==
    (callRet.op \in {"get", "play"} /\ callRet.action \notin DOMAIN animations) =>
        /\ callRet.outcome = "UnknownAction"
        /\ pc = "running"

\* C8: a cursor that starts with now >= start_time keeps now >= start_time
\* through every tick, a loop restart included.
C8_NowAtLeastStart ==
    cursor # <<>> => cursor[1].now >= cursor[1].start_time

(***************************************************************************)
(* Properties of hline and bitblt, on the operation lastOp records:        *)
(* lastOp.old is the destination buffer before it, dst.buffer after it.    *)
(***************************************************************************)
PixelX(i) == (i - 1) % dst.sz.x

PixelY(i) == (i - 1) \div dst.sz.x

SrcBounds == [pos |-> Vec2i(0, 0), sz |-> src.sz]

SrcPixel(x, y) == src.buffer[y * src.sz.x + x + 1]

\* C9: hline with x0 <= x1 <= width and y < height succeeds and sets exactly
\* the pixels (x, y), x0 <= x < x1; any other call fails and writes nothing.
C9_HlineFillsUpToWidth ==
    lastOp.op = "hline" =>
        IF lastOp.x0 <= lastOp.x1 /\ lastOp.x1 <= dst.sz.x /\ lastOp.y < dst.sz.y
        THEN /\ lastOp.panic = "none"
             /\ \A i \in 1..Len(dst.buffer) :
                   dst.buffer[i] =
                       IF /\ PixelY(i) = lastOp.y
                          /\ lastOp.x0 <= PixelX(i)
                          /\ PixelX(i) < lastOp.x1
                       THEN lastOp.c
                       ELSE lastOp.old[i]
        ELSE /\ lastOp.panic # "none"
             /\ dst.buffer = lastOp.old

\* The destination pixel (x, y) lies in the placed rectangle [to, to + from.sz).
InPlaced(x, y) ==
    /\ lastOp.to.x <= x
    /\ x - lastOp.to.x < lastOp.from.sz.x
    /\ lastOp.to.y <= y
    /\ y - lastOp.to.y < lastOp.from.sz.y

\* C4: a bitblt whose from lies in the source completes, and changes only the
\* destination pixels of the placed rectangle that are inside the
\* destination, each from its old value and the source pixel at the same
\* offset from from.pos.
C4_BlitClipsToIntersection ==
    (lastOp.op = "bitblt" /\ contains(SrcBounds, lastOp.from)) =>
        /\ lastOp.panic = "none"
        /\ \A i \in 1..Len(dst.buffer) :
              dst.buffer[i] =
                  IF InPlaced(PixelX(i), PixelY(i))
                  THEN Blend(lastOp.old[i],
                             SrcPixel(lastOp.from.pos.x + PixelX(i) - lastOp.to.x,
                                      lastOp.from.pos.y + PixelY(i) - lastOp.to.y))
                  ELSE lastOp.old[i]

\* The placed rectangle and the destination have no pixel in common.
EmptyIntersection ==
    \/ lastOp.from.sz.x = 0
    \/ lastOp.from.sz.y = 0
    \/ dst.sz.x = 0
    \/ dst.sz.y = 0
    \/ src.sz.x = 0
    \/ src.sz.y = 0
    \/ lastOp.to.x <= 0 - lastOp.from.sz.x
    \/ lastOp.to.y <= 0 - lastOp.from.sz.y
    \/ lastOp.to.x >= dst.sz.x
    \/ lastOp.to.y >= dst.sz.y

\* C5: a bitblt whose placed rectangle does not meet the destination returns
\* normally and leaves every destination pixel as it was.
C5_DisjointBlitIsNoOp ==
    (lastOp.op = "bitblt" /\ contains(SrcBounds, lastOp.from) /\ EmptyIntersection) =>
        /\ lastOp.panic = "none"
        /\ dst.buffer = lastOp.old

\* The placed rectangle lies inside the destination.
FullyInside ==
    /\ 0 <= lastOp.to.x
    /\ 0 <= lastOp.to.y
    /\ lastOp.to.x <= dst.sz.x - lastOp.from.sz.x
    /\ lastOp.to.y <= dst.sz.y - lastOp.from.sz.y

FromOffsets == (0..(lastOp.from.sz.x - 1)) \X (0..(lastOp.from.sz.y - 1))

FromPixel(o) == SrcPixel(lastOp.from.pos.x + o[1], lastOp.from.pos.y + o[2])

DstIndex(o) == (lastOp.to.y + o[2]) * dst.sz.x + lastOp.to.x + o[1] + 1

OpaqueBlitInside ==
    /\ lastOp.op = "bitblt"
    /\ contains(SrcBounds, lastOp.from)
    /\ FullyInside
    /\ \A o \in FromOffsets : FromPixel(o)[4] = 255

\* C6: after a bitblt placed inside the destination whose source pixels all
\* have alpha 255, every covered destination pixel equals its source pixel.
C6_OpaqueBlitReplaces ==
    OpaqueBlitInside => \A o \in FromOffsets : dst.buffer[DstIndex(o)] = FromPixel(o)

C6_OpaqueBlitOverOtherPixels ==
    /\ OpaqueBlitInside
    /\ lastOp.panic = "none"
    /\ lastOp.from.sz.x = 2
    /\ lastOp.from.sz.y = 2
    /\ \E o \in FromOffsets :
          /\ lastOp.old[DstIndex(o)] # FromPixel(o)
          /\ lastOp.old[DstIndex(o)][4] < 255

====
